---- MODULE Spec2Model ----
(***************************************************************************)
(* A model of SpreadsheetAgent.process_spreadsheet and the per-sheet       *)
(* inference pipeline of src/spreadsheet_agent.py.                         *)
(*                                                                         *)
(* Text is a sequence of one-character strings, so that trimming, case     *)
(* folding, text conversion and date-format matching are computed rather   *)
(* than assumed.  The data-frame library is modelled with the behaviour of *)
(* pandas 2.x: Series.astype(str) renders a missing value as the text      *)
(* "nan" (float/object storage) or "NaT" (datetime storage), and           *)
(* to_datetime(format=...) requires the whole text to match the format.    *)
(***************************************************************************)
EXTENDS Integers, Sequences, FiniteSets, TLC

(***************************************************************************)
(* Bounds of the model.                                                    *)
(***************************************************************************)
MaxCols == 4
MaxRows == 11
MaxSheets == 2

(***************************************************************************)
(* Text helpers.                                                           *)
(***************************************************************************)
UpperChars == <<"A","B","C","D","E","F","G","H","I","J","K","L","M",
                "N","O","P","Q","R","S","T","U","V","W","X","Y","Z">>
LowerChars == <<"a","b","c","d","e","f","g","h","i","j","k","l","m",
                "n","o","p","q","r","s","t","u","v","w","x","y","z">>
DigitChars == <<"0","1","2","3","4","5","6","7","8","9">>

IsDigit(c) == \E i \in 1..10 : DigitChars[i] = c
DigitVal(c) == (CHOOSE i \in 1..10 : DigitChars[i] = c) - 1

LowerChar(c) ==
  IF \E i \in 1..26 : UpperChars[i] = c
    THEN LowerChars[CHOOSE i \in 1..26 : UpperChars[i] = c]
    ELSE c

\* str.lower()
StrLower(s) == [i \in 1..Len(s) |-> LowerChar(s[i])]

IsSpace(c) == c = " "

RECURSIVE LStrip(_)
LStrip(s) == IF s # <<>> /\ IsSpace(Head(s)) THEN LStrip(Tail(s)) ELSE s

RECURSIVE RStrip(_)
RStrip(s) ==
  IF s # <<>> /\ IsSpace(s[Len(s)]) THEN RStrip(SubSeq(s, 1, Len(s) - 1)) ELSE s

\* str.strip()
StrStrip(s) == RStrip(LStrip(s))

RECURSIVE IntToStr(_)
\* str(n) for a natural number
IntToStr(n) ==
  IF n < 10 THEN <<DigitChars[n + 1]>>
  ELSE IntToStr(n \div 10) \o <<DigitChars[(n % 10) + 1]>>

RECURSIVE ZeroPad(_, _)
ZeroPad(s, w) == IF Len(s) >= w THEN s ELSE ZeroPad(<<"0">> \o s, w)

RECURSIVE StrToInt(_)
StrToInt(s) ==
  IF s = <<>> THEN 0
  ELSE 10 * StrToInt(SubSeq(s, 1, Len(s) - 1)) + DigitVal(s[Len(s)])

AllDigits(s) == \A i \in 1..Len(s) : IsDigit(s[i])

StartsWith(s, p) == Len(s) >= Len(p) /\ SubSeq(s, 1, Len(p)) = p

(***************************************************************************)
(* The text constants of the program.                                      *)
(***************************************************************************)
sNan == <<"n","a","n">>
sNaT == <<"N","a","T">>
sTrue == <<"T","r","u","e">>
sFalse == <<"F","a","l","s","e">>
sUnnamed == <<"U","n","n","a","m","e","d">>
DateNames == { <<"d","a","t","e">>, <<"y","e","a","r">>, <<"m","o","n","t","h">> }

\* the texts the strptime of the data-frame library reads as a missing value
NatStrings == { sNaT, <<"n","a","t">>, <<"N","A","T">>, sNan,
                <<"N","a","N">>, <<"N","A","N">> }

MonthAbbr == << <<"j","a","n">>, <<"f","e","b">>, <<"m","a","r">>,
                <<"a","p","r">>, <<"m","a","y">>, <<"j","u","n">>,
                <<"j","u","l">>, <<"a","u","g">>, <<"s","e","p">>,
                <<"o","c","t">>, <<"n","o","v">>, <<"d","e","c">> >>
MonthFull == << <<"j","a","n","u","a","r","y">>,
                <<"f","e","b","r","u","a","r","y">>,
                <<"m","a","r","c","h">>, <<"a","p","r","i","l">>,
                <<"m","a","y">>, <<"j","u","n","e">>, <<"j","u","l","y">>,
                <<"a","u","g","u","s","t">>,
                <<"s","e","p","t","e","m","b","e","r">>,
                <<"o","c","t","o","b","e","r">>,
                <<"n","o","v","e","m","b","e","r">>,
                <<"d","e","c","e","m","b","e","r">> >>

(***************************************************************************)
(* known_formats of _detect_date_columns, in list order.  A format is its  *)
(* name and its tokens (a directive or a literal character).               *)
(***************************************************************************)
Directives == {"%d", "%m", "%Y", "%y", "%H", "%M", "%S", "%b", "%B"}

known_formats == <<
  [name |-> "%d/%m/%Y",          toks |-> <<"%d","/","%m","/","%Y">>],
  [name |-> "%Y-%m-%d %H:%M:%S", toks |-> <<"%Y","-","%m","-","%d"," ","%H",":","%M",":","%S">>],
  [name |-> "%Y-%m-%d",          toks |-> <<"%Y","-","%m","-","%d">>],
  [name |-> "%B %Y",             toks |-> <<"%B"," ","%Y">>],
  [name |-> "%b-%y",             toks |-> <<"%b","-","%y">>],
  [name |-> "%m/%Y",             toks |-> <<"%m","/","%Y">>],
  [name |-> "%Y%m",              toks |-> <<"%Y","%m">>],
  [name |-> "%d-%m-%Y",          toks |-> <<"%d","-","%m","-","%Y">>],
  [name |-> "%m-%d-%Y",          toks |-> <<"%m","-","%d","-","%Y">>],
  [name |-> "%b-%y",             toks |-> <<"%b","-","%y">>],
  [name |-> "%b-%Y",             toks |-> <<"%b","-","%Y">>],
  [name |-> "%Y-%b",             toks |-> <<"%Y","-","%b">>],
  [name |-> "%b/%y",             toks |-> <<"%b","/","%y">>],
  [name |-> "%b/%Y",             toks |-> <<"%b","/","%Y">>] >>

\* the widths a directive may consume
FieldWidths(t) ==
  CASE t = "%Y" -> {4}
    [] t = "%y" -> {2}
    [] t = "%b" -> {3}
    [] t = "%B" -> 3..9
    [] OTHER -> {1, 2}

\* whether the text f is a value of directive t
FieldOK(t, f) ==
  CASE t = "%b" -> \E i \in 1..12 : MonthAbbr[i] = StrLower(f)
    [] t = "%B" -> \E i \in 1..12 : MonthFull[i] = StrLower(f)
    [] t = "%Y" -> AllDigits(f)
    [] t = "%y" -> AllDigits(f)
    [] t = "%d" -> AllDigits(f) /\ StrToInt(f) \in 1..31
    [] t = "%m" -> AllDigits(f) /\ StrToInt(f) \in 1..12
    [] t = "%H" -> AllDigits(f) /\ StrToInt(f) \in 0..23
    [] t = "%M" -> AllDigits(f) /\ StrToInt(f) \in 0..59
    [] OTHER    -> AllDigits(f) /\ StrToInt(f) \in 0..61

RECURSIVE MatchFmt(_, _)
\* strptime: the whole text s matches the token list toks
MatchFmt(s, toks) ==
  IF toks = <<>> THEN s = <<>>
  ELSE LET t == Head(toks)
           rest == Tail(toks)
       IN IF t \in Directives
            THEN \E w \in FieldWidths(t) :
                   /\ Len(s) >= w
                   /\ FieldOK(t, SubSeq(s, 1, w))
                   /\ MatchFmt(SubSeq(s, w + 1, Len(s)), rest)
            ELSE IF t = " "
              THEN \E w \in 1..Len(s) :
                     /\ \A i \in 1..w : IsSpace(s[i])
                     /\ MatchFmt(SubSeq(s, w + 1, Len(s)), rest)
              ELSE s # <<>> /\ Head(s) = t /\ MatchFmt(Tail(s), rest)

\* pd.to_datetime(text, format=fmt, errors='raise') does not raise
ParsesText(s, fmt) == s = <<>> \/ s \in NatStrings \/ MatchFmt(s, fmt.toks)

(***************************************************************************)
(* Cells and columns of a table.  A cell is missing (NaN / NaT), a text,   *)
(* a whole number, a boolean or a time stamp (date and nanoseconds into    *)
(* the day).  A column is a label, a storage dtype and its cells.          *)
(***************************************************************************)
NullCell == [k |-> "null", v |-> <<>>]
TextCell(s) == [k |-> "text", v |-> s]
NumCell(n) == [k |-> "num", v |-> <<n>>]
BoolCell(b) == [k |-> "bool", v |-> <<b>>]
StampCell(y, m, d, ns) == [k |-> "ts", v |-> <<y, m, d, ns>>]

IsNull(c) == c.k = "null"

\* the storage dtype pd.read_excel gives a column with these cells
ReadDtype(cells) ==
  LET n == Len(cells)
      kinds == {cells[i].k : i \in 1..n}
  IN CASE n = 0 -> "object"
       [] kinds = {"null"} -> "float64"
       [] kinds = {"num"} -> "int64"
       [] kinds = {"num", "null"} -> "float64"
       [] kinds = {"bool"} -> "bool"
       [] kinds \subseteq {"ts", "null"} -> "datetime64"
       [] OTHER -> "object"

Column(label, cells) == [label |-> label, dtype |-> ReadDtype(cells), cells |-> cells]

\* len(df)
NumRows(df) == IF df = <<>> THEN 0 ELSE Len(df[1].cells)

\* df.columns.tolist()
Labels(df) == [i \in 1..Len(df) |-> df[i].label]

\* df[label] is a single Series only when the label is unique among the
\* columns; otherwise it is a DataFrame of all the columns so labelled
IsDuplicated(df, label) == Cardinality({i \in 1..Len(df) : df[i].label = label}) > 1
HasDuplicates(df) == \E i \in 1..Len(df) : IsDuplicated(df, df[i].label)

ColIndex(df, label) == CHOOSE i \in 1..Len(df) : df[i].label = label

SeqRange(s) == {s[i] : i \in 1..Len(s)}

(***************************************************************************)
(* Series.astype(str): the text of every cell of a column.                 *)
(***************************************************************************)
StampDate(v) ==
  ZeroPad(IntToStr(v[1]), 4) \o <<"-">> \o ZeroPad(IntToStr(v[2]), 2)
    \o <<"-">> \o ZeroPad(IntToStr(v[3]), 2)

StampFull(v) ==
  StampDate(v) \o <<" ","0","0",":","0","0",":","0","0",".">>
    \o ZeroPad(IntToStr(v[4]), 9)

\* a datetime column is rendered date-only when no stamp has a time of day
DateOnly(cells) == \A i \in 1..Len(cells) : cells[i].k = "ts" => cells[i].v[4] = 0

CellStr(c, dtype, dateOnly) ==
  CASE c.k = "null" -> IF dtype = "datetime64" THEN sNaT ELSE sNan
    [] c.k = "text" -> c.v
    [] c.k = "num"  -> IF dtype = "float64"
                         THEN IntToStr(c.v[1]) \o <<".","0">>
                         ELSE IntToStr(c.v[1])
    [] c.k = "bool" -> IF c.v[1] THEN sTrue ELSE sFalse
    [] OTHER        -> IF dateOnly THEN StampDate(c.v) ELSE StampFull(c.v)

AsTypeStr(col) ==
  [i \in 1..Len(col.cells) |-> CellStr(col.cells[i], col.dtype, DateOnly(col.cells))]

(***************************************************************************)
(* pd.to_datetime(series, errors='coerce', dayfirst=True), cell by cell.   *)
(* A text is read day first (d/m/Y or d-m-Y) or as an ISO date; a number   *)
(* is read as nanoseconds since 1970-01-01; a boolean and any other text   *)
(* become missing.                                                         *)
(***************************************************************************)
RECURSIVE SplitOn(_, _)
SplitOn(s, ch) ==
  IF \E i \in 1..Len(s) : s[i] = ch
    THEN LET p == CHOOSE i \in 1..Len(s) :
                    s[i] = ch /\ \A j \in 1..(i - 1) : s[j] # ch
         IN <<SubSeq(s, 1, p - 1)>> \o SplitOn(SubSeq(s, p + 1, Len(s)), ch)
    ELSE <<s>>

CoerceText(s) ==
  LET t == StrStrip(s) IN
  IF MatchFmt(t, known_formats[1].toks)
    THEN LET f == SplitOn(t, "/")
         IN StampCell(StrToInt(f[3]), StrToInt(f[2]), StrToInt(f[1]), 0)
  ELSE IF MatchFmt(t, known_formats[8].toks)
    THEN LET f == SplitOn(t, "-")
         IN StampCell(StrToInt(f[3]), StrToInt(f[2]), StrToInt(f[1]), 0)
  ELSE IF MatchFmt(t, known_formats[3].toks)
    THEN LET f == SplitOn(t, "-")
         IN StampCell(StrToInt(f[1]), StrToInt(f[2]), StrToInt(f[3]), 0)
  ELSE NullCell

CoerceCell(c) ==
  CASE c.k = "text" -> CoerceText(c.v)
    [] c.k = "num"  -> StampCell(1970, 1, 1, c.v[1])
    [] c.k = "ts"   -> c
    [] OTHER        -> NullCell

ToDatetimeCoerce(col) ==
  [label |-> col.label, dtype |-> "datetime64",
   cells |-> [i \in 1..Len(col.cells) |-> CoerceCell(col.cells[i])]]

(***************************************************************************)
(* Program constants.                                                      *)
(***************************************************************************)
\* 0.4 and 0.9, in tenths: the ratio comparisons are done on integers
NonNullTenths == 4
UniqueTenths == 9
\* head(10)
SampleSize == 10

\* converting a set to a list gives its elements in an order the program
\* does not control
Orderings(S) ==
  {s \in [1..Cardinality(S) -> S] : \A i, j \in 1..Cardinality(S) : s[i] = s[j] => i = j}

(***************************************************************************)
(* Column Sanitizer.                                                       *)
(***************************************************************************)
\* the labels converted to text but not trimmed
CleanLabelsNoStrip(df) ==
  [i \in 1..Len(df) |-> [df[i] EXCEPT !.label = CellStr(df[i].label, "object", TRUE)]]

\* df.columns.astype(str).str.strip(); a header is a text or a number
CleanLabels(df) ==
  [i \in 1..Len(df) |->
     [df[i] EXCEPT !.label = StrStrip(CellStr(df[i].label, "object", TRUE))]]

\* str.contains('^Unnamed')
IsPlaceholder(label) == StartsWith(label, sUnnamed)

RECURSIVE DropPlaceholders(_)
\* df.loc[:, ~df.columns.str.contains('^Unnamed')]
DropPlaceholders(df) ==
  IF df = <<>> THEN <<>>
  ELSE IF IsPlaceholder(Head(df).label) THEN DropPlaceholders(Tail(df))
       ELSE <<Head(df)>> \o DropPlaceholders(Tail(df))

Sanitize(df) == DropPlaceholders(CleanLabels(df))

(***************************************************************************)
(* _detect_date_columns.                                                   *)
(***************************************************************************)
RECURSIVE FirstFormatFrom(_, _)
\* the index of the first known format, from index i on, that does not
\* raise (ok[j] tells whether format j parses); 0 when every format raises
FirstFormatFrom(i, ok) ==
  IF i > Len(known_formats) THEN 0
  ELSE IF ok[i] THEN i
       ELSE FirstFormatFrom(i + 1, ok)

\* the first format under which the label itself parses
LabelFormat(label) ==
  FirstFormatFrom(1, [j \in 1..Len(known_formats) |-> ParsesText(label, known_formats[j])])

RECURSIVE DropNa(_)
DropNa(cells) ==
  IF cells = <<>> THEN <<>>
  ELSE IF IsNull(Head(cells)) THEN DropNa(Tail(cells))
       ELSE <<Head(cells)>> \o DropNa(Tail(cells))

\* df[col].dropna().astype(str).head(10)
SampleData(col) ==
  LET present == DropNa(col.cells)
      texts == AsTypeStr([col EXCEPT !.cells = present])
  IN SubSeq(texts, 1, IF Len(texts) < SampleSize THEN Len(texts) ELSE SampleSize)

\* a variant under which a sample without values matches no format
SampleFormatNonEmpty(df, i) ==
  LET sample == SampleData(df[i])
      ok == [j \in 1..Len(known_formats) |->
               /\ sample # <<>>
               /\ \A r \in 1..Len(sample) : ParsesText(sample[r], known_formats[j])]
  IN IF IsDuplicated(df, df[i].label) THEN 0 ELSE FirstFormatFrom(1, ok)

\* the first format under which the whole sample parses; a duplicated label
\* selects a frame, for which every format raises ValueError
SampleFormat(df, i) ==
  LET sample == SampleData(df[i])
      ok == [j \in 1..Len(known_formats) |->
               \A r \in 1..Len(sample) : ParsesText(sample[r], known_formats[j])]
  IN IF IsDuplicated(df, df[i].label) THEN 0 ELSE FirstFormatFrom(1, ok)

IsDateName(label) == StrLower(label) \in DateNames

\* what one iteration of the column loop appends to date_columns
DateAppends(df, i) ==
  LET label == df[i].label IN
  (IF LabelFormat(label) # 0 THEN <<label>> ELSE <<>>)
    \o (IF IsDateName(label) THEN <<label>>
        ELSE IF SampleFormat(df, i) # 0 THEN <<label>> ELSE <<>>)

\* the formats added when a date-named column is not skipped before the
\* values are tried
FormatAddsNoContinue(df, i) ==
  LET label == df[i].label IN
  (IF LabelFormat(label) # 0 THEN {known_formats[LabelFormat(label)].name} ELSE {})
    \cup (IF SampleFormat(df, i) # 0
            THEN {known_formats[SampleFormat(df, i)].name} ELSE {})

\* what one iteration of the column loop adds to date_formats
FormatAdds(df, i) ==
  LET label == df[i].label IN
  (IF LabelFormat(label) # 0 THEN {known_formats[LabelFormat(label)].name} ELSE {})
    \cup (IF IsDateName(label) THEN {}
          ELSE IF SampleFormat(df, i) # 0
                 THEN {known_formats[SampleFormat(df, i)].name} ELSE {})

RECURSIVE DateList(_, _)
\* date_columns as appended by the loop over columns i..Len(df)
DateList(df, i) ==
  IF i > Len(df) THEN <<>> ELSE DateAppends(df, i) \o DateList(df, i + 1)

\* date_formats as collected by the loop
DateFormatSet(df) == UNION {FormatAdds(df, i) : i \in 1..Len(df)}

\* the list kept as appended
KeepDuplicates(lst) == {lst}

\* "Remove duplicates": list(set(date_columns))
RemoveDuplicates(lst) == Orderings(SeqRange(lst))

(***************************************************************************)
(* _infer_data_types.                                                      *)
(***************************************************************************)
\* the type names with the numeric test ahead of the boolean one
DtypeNameBoolLast(dtype) ==
  CASE dtype = "datetime64" -> "datetime"
    [] dtype \in {"int64", "bool"} -> "integer"
    [] dtype = "float64"    -> "float"
    [] OTHER                -> "string"

DtypeName(dtype) ==
  CASE dtype = "datetime64" -> "datetime"
    [] dtype = "int64"      -> "integer"
    [] dtype = "float64"    -> "float"
    [] dtype = "bool"       -> "boolean"
    [] OTHER                -> "string"

\* pd.to_datetime(df[col], errors='coerce', dayfirst=True) raises when
\* df[col] is a frame (duplicated label) that is not year/month/day columns
CoercionRaises(df, i) == IsDuplicated(df, df[i].label)

RECURSIVE InferLoop(_, _, _, _)
\* the loop over columns i..Len(df); returns the table and the type map
InferLoop(df, date_columns, i, types) ==
  IF i > Len(df) THEN [df |-> df, types |-> types]
  ELSE LET col == df[i].label
           put(t) == [l \in DOMAIN types \cup {col} |-> IF l = col THEN t ELSE types[l]]
       IN IF col \in SeqRange(date_columns)
            THEN IF CoercionRaises(df, i)
                   THEN InferLoop(df, date_columns, i + 1, put("string"))
                   ELSE InferLoop([df EXCEPT ![i] = ToDatetimeCoerce(df[i])],
                                  date_columns, i + 1, put("datetime"))
            ELSE InferLoop(df, date_columns, i + 1,
                           put(IF IsDuplicated(df, col) THEN "string"
                               ELSE DtypeName(df[i].dtype)))

InferDataTypes(df, date_columns) == InferLoop(df, date_columns, 1, <<>>)

(***************************************************************************)
(* Null counts: df.isnull().sum().to_dict()                                *)
(***************************************************************************)
NullCount(col) == Cardinality({r \in 1..Len(col.cells) : IsNull(col.cells[r])})

NullCounts(df) ==
  [l \in SeqRange(Labels(df)) |->
     NullCount(df[CHOOSE i \in 1..Len(df) :
                    df[i].label = l /\ \A j \in (i + 1)..Len(df) : df[j].label # l])]

(***************************************************************************)
(* Role classifier.                                                        *)
(***************************************************************************)
\* len(df[col].dropna().unique())
UniqueCount(col) ==
  Cardinality({col.cells[r] : r \in {q \in 1..Len(col.cells) : ~IsNull(col.cells[q])}})

NonNullCount(col) == Len(col.cells) - NullCount(col)

\* df[col].notnull().mean() > 0.4 ; the mean of no rows is NaN, and no
\* comparison with NaN holds
NonNullAbove(col) ==
  Len(col.cells) > 0 /\ 10 * NonNullCount(col) > NonNullTenths * Len(col.cells)

\* a variant that takes the distinct count against the non-null count
UniqueBelowPresent(col, total_rows) ==
  IF total_rows > 0 THEN 10 * UniqueCount(col) < UniqueTenths * NonNullCount(col) ELSE TRUE

\* uniqueness_ratio < 0.9, the ratio being 0 when there are no rows
UniqueBelow(col, total_rows) ==
  IF total_rows > 0 THEN 10 * UniqueCount(col) < UniqueTenths * total_rows ELSE TRUE

\* the identifier test with both comparisons non-strict
IsIdentifierNonStrict(col, total_rows) ==
  /\ Len(col.cells) > 0
  /\ 10 * NonNullCount(col) >= NonNullTenths * Len(col.cells)
  /\ 10 * UniqueCount(col) <= UniqueTenths * total_rows

IsIdentifier(col, total_rows) == NonNullAbove(col) /\ UniqueBelow(col, total_rows)

RECURSIVE IdentifierLoop(_, _)
IdentifierLoop(df, i) ==
  IF i > Len(df) THEN <<>>
  ELSE (IF IsIdentifier(df[i], NumRows(df)) THEN <<df[i].label>> ELSE <<>>)
         \o IdentifierLoop(df, i + 1)

\* df[col].dropna() on a frame has no unique(): AttributeError
IdentifierRaises(df) == HasDuplicates(df)

IdentifyIdentifierColumns(df) == IdentifierLoop(df, 1)

\* the description test without the exclusion of the identifier columns
IsDescriptionNoExclude(col, exclude_columns) == NonNullAbove(col)

IsDescription(col, exclude_columns) ==
  col.label \notin SeqRange(exclude_columns) /\ NonNullAbove(col)

RECURSIVE DescriptionLoop(_, _, _)
DescriptionLoop(df, exclude_columns, i) ==
  IF i > Len(df) THEN <<>>
  ELSE (IF IsDescription(df[i], exclude_columns) THEN <<df[i].label>> ELSE <<>>)
         \o DescriptionLoop(df, exclude_columns, i + 1)

IdentifyDescriptionColumns(df, exclude_columns) == DescriptionLoop(df, exclude_columns, 1)

\* pd.api.types.is_numeric_dtype
IsNumericDtype(dtype) == dtype \in {"int64", "float64", "bool"}

\* a variant that takes every numeric column, excluded or not
IsMetricNumericOnly(col, exclude_columns) == IsNumericDtype(col.dtype)

\* line 278
IsMetric(col, exclude_columns) ==
  col.label \notin SeqRange(exclude_columns) /\ IsNumericDtype(col.dtype)

RECURSIVE MetricLoop(_, _, _)
MetricLoop(df, exclude_columns, i) ==
  IF i > Len(df) THEN <<>>
  ELSE (IF IsMetric(df[i], exclude_columns) THEN <<df[i].label>> ELSE <<>>)
         \o MetricLoop(df, exclude_columns, i + 1)

IdentifyMetricColumns(df, exclude_columns) == MetricLoop(df, exclude_columns, 1)

(***************************************************************************)
(* _extract_metrics.                                                       *)
(***************************************************************************)
RECURSIVE CrossPairs(_, _, _, _)
\* the nested loops: identifier columns outer, description columns inner
CrossPairs(identifier_columns, description_columns, i, j) ==
  IF i > Len(identifier_columns) THEN <<>>
  ELSE IF j > Len(description_columns)
         THEN CrossPairs(identifier_columns, description_columns, i + 1, 1)
         ELSE << <<identifier_columns[i], description_columns[j]>> >>
                \o CrossPairs(identifier_columns, description_columns, i, j + 1)

\* the candidate list with the two loops exchanged
ColumnsToTrySwapped(df, identifier_columns, description_columns) ==
  LET swapped == CrossPairs(description_columns, identifier_columns, 1, 1) IN
  (IF Len(df) >= 2 THEN << <<df[1].label, df[2].label>> >> ELSE <<>>)
    \o [p \in 1..Len(swapped) |-> <<swapped[p][2], swapped[p][1]>>]

ColumnsToTry(df, identifier_columns, description_columns) ==
  (IF Len(df) >= 2 THEN << <<df[1].label, df[2].label>> >> ELSE <<>>)
    \o CrossPairs(identifier_columns, description_columns, 1, 1)

\* Series.notnull() of a column already converted to text: a text is never
\* missing, whatever the cell it was made from
TextNotNull(texts) == [r \in 1..Len(texts) |-> TRUE]

\* the test of line 313 on the trimmed texts
KeepsRow(identifier, description) ==
  /\ identifier # <<>>
  /\ description # <<>>
  /\ StrLower(identifier) # sNan
  /\ StrLower(description) # sNan

\* a variant that keeps the value a key already has
DictPutKeepFirst(m, key, val) ==
  [x \in DOMAIN m \cup {key} |-> IF x \in DOMAIN m THEN m[x] ELSE val]

DictPut(m, key, val) == [x \in DOMAIN m \cup {key} |-> IF x = key THEN val ELSE m[x]]

RECURSIVE ZipLoop(_, _, _, _, _)
\* the loop over the rows r..n selected by mask, writing into metrics
ZipLoop(metrics, id_series, desc_series, mask, r) ==
  IF r > Len(id_series) THEN metrics
  ELSE LET identifier == StrStrip(id_series[r])
           description == StrStrip(desc_series[r])
       IN IF mask[r] /\ KeepsRow(identifier, description)
            THEN ZipLoop(DictPut(metrics, identifier, description),
                         id_series, desc_series, mask, r + 1)
            ELSE ZipLoop(metrics, id_series, desc_series, mask, r + 1)

\* one iteration of the loop over columns_to_try, starting from metrics
TryPair(df, pair, metrics) ==
  LET id_series == AsTypeStr(df[ColIndex(df, pair[1])])
      desc_series == AsTypeStr(df[ColIndex(df, pair[2])])
      combined_non_null ==
        [r \in 1..Len(id_series) |-> TextNotNull(id_series)[r] /\ TextNotNull(desc_series)[r]]
  IN IF Cardinality({r \in 1..Len(id_series) : combined_non_null[r]}) = 0
       THEN metrics
       ELSE ZipLoop(metrics, id_series, desc_series, combined_non_null, 1)

RECURSIVE TryLoop(_, _, _, _)
\* the loop over columns_to_try from index i on; returns at the first
\* candidate that leaves metrics non-empty
TryLoop(df, columns_to_try, i, metrics) ==
  IF i > Len(columns_to_try) THEN metrics
  ELSE LET m == TryPair(df, columns_to_try[i], metrics)
       IN IF DOMAIN m # {} THEN m ELSE TryLoop(df, columns_to_try, i + 1, m)

ExtractMetrics(df, identifier_columns, description_columns) ==
  TryLoop(df, ColumnsToTry(df, identifier_columns, description_columns), 1, <<>>)

(***************************************************************************)
(* The response schemas: a model keeps the declared fields only (extra     *)
(* keyword arguments are ignored by the schema library).                   *)
(***************************************************************************)
SheetInfoFields ==
  {"name", "columns", "row_count", "column_count", "data_types",
   "has_headers", "date_columns", "null_counts", "date_formats"}

SheetInfo(kwargs) == [f \in (DOMAIN kwargs) \cap SheetInfoFields |-> kwargs[f]]

ResponseFields == {"sheets_metadata", "processed_data", "file_path"}

SpreadsheetProcessingResponse(kwargs) ==
  [f \in (DOMAIN kwargs) \cap ResponseFields |-> kwargs[f]]

\* model_dump(exclude_unset=True): the fields that were set
ModelDump(info) == info

\* Path.with_suffix
WithSuffix(path, suffix) == [path EXCEPT !.suffix = suffix]

(***************************************************************************)
(* The workbooks the model reads.  A raw sheet is a sequence of columns    *)
(* [label, cells] as stored in the file; headers differ pairwise, as the   *)
(* reader makes them.                                                      *)
(***************************************************************************)
tCode == <<"C","o","d","e">>
tCodeSp == <<" ","C","o","d","e">>
tLabel == <<"L","a","b","e","l">>
tId == <<"I","d">>
tNote == <<"N","o","t","e">>
tAlt == <<"A","l","t">>
tKind == <<"K","i","n","d">>
tDate == <<"D","a","t","e">>
tDateSp == <<"D","a","t","e"," ">>
tWhen == <<"W","h","e","n">>
tJan24 == <<"J","a","n","-","2","4">>
tFeb24 == <<"F","e","b","-","2","4">>
tUnnamed0 == <<"U","n","n","a","m","e","d",":"," ","0">>
tUnnamed1 == <<" ","U","n","n","a","m","e","d",":"," ","1">>
tFlag == <<"F","l","a","g">>
tQty == <<"Q","t","y">>
tAmount == <<"A","m","o","u","n","t">>
tR001 == <<"R","0","0","1">>
tR001Sp == <<" ","R","0","0","1"," ">>
tR002 == <<"R","0","0","2">>
tRevenue == <<"R","e","v","e","n","u","e">>
tCost == <<"C","o","s","t">>
tBlank == <<" "," ">>
tTBD == <<"T","B","D">>
tDay15 == <<"1","5","/","0","1","/","2","0","2","4">>
tDay16 == <<"1","6","/","0","1","/","2","0","2","4">>

RawColumn(label, cells) == [label |-> label, cells |-> cells]

\* two-row columns for the metric dictionary
PoolA == <<
  RawColumn(TextCell(tCode),  <<TextCell(tR001), TextCell(tR002)>>),
  RawColumn(TextCell(tLabel), <<TextCell(tRevenue), TextCell(tCost)>>),
  RawColumn(TextCell(tId),    <<TextCell(tR001), NullCell>>),
  RawColumn(TextCell(tNote),  <<TextCell(tBlank), TextCell(tCost)>>),
  RawColumn(TextCell(tAlt),   <<NullCell, TextCell(tR002)>>),
  RawColumn(TextCell(tKind),  <<TextCell(tR001), TextCell(tR001Sp)>>),
  RawColumn(TextCell(tDate),  <<TextCell(tDay15), TextCell(tTBD)>>) >>

\* two-row columns for the sanitizer and the types
PoolC == <<
  RawColumn(TextCell(tCode),     <<TextCell(tR001), TextCell(tR002)>>),
  RawColumn(TextCell(tCodeSp),   <<TextCell(tRevenue), TextCell(tCost)>>),
  RawColumn(TextCell(tDate),     <<TextCell(tDay15), TextCell(tTBD)>>),
  RawColumn(TextCell(tDateSp),   <<TextCell(tDay16), NullCell>>),
  RawColumn(TextCell(tUnnamed0), <<NullCell, NullCell>>),
  RawColumn(TextCell(tUnnamed1), <<TextCell(tR001), NullCell>>),
  RawColumn(TextCell(tFlag),     <<BoolCell(TRUE), BoolCell(FALSE)>>),
  RawColumn(TextCell(tQty),      <<NumCell(1), NumCell(2)>>) >>

\* two-row columns for the date detection
PoolF == <<
  RawColumn(TextCell(tWhen),     <<TextCell(tDay15), TextCell(tDay16)>>),
  RawColumn(TextCell(tFeb24),    <<NullCell, NullCell>>),
  RawColumn(TextCell(tJan24),    <<NumCell(10), NullCell>>),
  RawColumn(NumCell(202401),     <<NumCell(7), NumCell(7)>>) >>

\* three-row columns, where a column can be sparse enough to be a metric
PoolE == <<
  RawColumn(TextCell(tCode),   <<TextCell(tR001), TextCell(tR002), TextCell(tR001)>>),
  RawColumn(TextCell(tLabel),  <<TextCell(tRevenue), TextCell(tCost), TextCell(tR001)>>),
  RawColumn(TextCell(tAmount), <<NumCell(5), NullCell, NullCell>>),
  RawColumn(TextCell(tQty),    <<NumCell(1), NumCell(1), NumCell(2)>>),
  RawColumn(TextCell(tDate),   <<NullCell, NumCell(3), NullCell>>),
  RawColumn(TextCell(tWhen),   <<StampCell(2024, 1, 15, 0), NullCell, StampCell(2024, 1, 16, 0)>>) >>

\* columns without rows
PoolD == <<
  RawColumn(TextCell(tCode), <<>>),
  RawColumn(TextCell(tLabel), <<>>),
  RawColumn(TextCell(tDate), <<>>) >>

InjectiveSeqs(n, maxlen) ==
  {q \in UNION {[1..k -> 1..n] : k \in 0..maxlen} :
     \A i, j \in 1..Len(q) : q[i] = q[j] => i = j}

RECURSIVE SortedSeq(_)
SortedSeq(S) ==
  IF S = {} THEN <<>>
  ELSE LET m == CHOOSE x \in S : \A y \in S : x <= y
       IN <<m>> \o SortedSeq(S \ {m})

OrderedPicks(n, maxlen) ==
  {SortedSeq(S) : S \in {T \in SUBSET (1..n) : Cardinality(T) <= maxlen}}

TablesFrom(pool, picks) == {[i \in 1..Len(q) |-> pool[q[i]]] : q \in picks}

\* a one-column table of n rows whose first k cells are present and hold
\* d distinct values
\* value v as a number, as a code, or as a day of January 2024 written day
\* first (from the eleventh value on, a text that is no date)
GenCell(kind, v) ==
  CASE kind = "num" -> NumCell(v)
    [] kind = "text" -> TextCell(<<"R">> \o IntToStr(v))
    [] OTHER -> IF v <= 10
                  THEN TextCell(ZeroPad(IntToStr(v), 2)
                                  \o <<"/","0","1","/","2","0","2","4">>)
                  ELSE TextCell(tTBD)

GenColumn(kind, n, k, d) ==
  RawColumn(TextCell(IF kind = "num" THEN tQty ELSE IF kind = "text" THEN tCode ELSE tWhen),
            [i \in 1..n |-> IF i <= k
                              THEN GenCell(kind, IF i < d THEN i ELSE d)
                              ELSE NullCell])

TablesB ==
  UNION {UNION {{<<GenColumn(kind, n, k, d)>> :
                   kind \in {"num", "text", "day"},
                   d \in (IF k = 0 THEN {0} ELSE 1..k)} :
                k \in 0..n} :
         n \in 0..MaxRows}

Tables ==
  TablesFrom(PoolA, InjectiveSeqs(Len(PoolA), MaxCols))
    \cup TablesFrom(PoolC, OrderedPicks(Len(PoolC), MaxCols))
    \cup TablesFrom(PoolF, OrderedPicks(Len(PoolF), MaxCols))
    \cup TablesFrom(PoolE, OrderedPicks(Len(PoolE), MaxCols))
    \cup TablesFrom(PoolD, OrderedPicks(Len(PoolD), MaxCols))
    \cup TablesB

\* the sheets of the workbooks with more than one sheet
FewTables ==
  { <<PoolA[1], PoolA[2]>>, <<PoolC[1], PoolC[2]>>, <<PoolF[1]>>,
    <<PoolF[3]>>, <<PoolC[5]>> }

Workbooks ==
  {<<t>> : t \in Tables} \cup UNION {[1..k -> FewTables] : k \in 2..MaxSheets}

SheetNames == <<"S1", "S2", "S3", "S4">>

\* the path given to process_spreadsheet
SpreadsheetPath == [stem |-> "book", suffix |-> ".xlsx"]

\* pd.read_excel: every column gets its storage dtype
LoadSheet(raw) == [i \in 1..Len(raw) |-> Column(raw[i].label, raw[i].cells)]

(***************************************************************************)
(* State.                                                                  *)
(***************************************************************************)
VARIABLES
  pc,                  \* position in process_spreadsheet / _extract_sheet_metadata
  fileState,           \* "missing", "unreadable" or "ok"
  workbook,            \* the sheets of the file
  sheetIdx,            \* the sheet the loop of line 80 is at
  df,                  \* the table of the current sheet
  date_columns, date_formats, data_types, null_counts,
  identifier_columns, description_columns, metric_columns,
  metrics,             \* the mapping _extract_metrics returned
  sheet_info,          \* the pair returned by _extract_sheet_metadata
  sheets_metadata, global_date_formats, metrics_mapping,
  document,            \* the profile document on disk; <<>> when not written
  result,              \* the returned response; <<>> when none
  error,               \* the exception raised; "none" when none
  previous,            \* the document an earlier call wrote for this workbook
  stream,              \* the stream argument of execute
  path_given,          \* context_variables holds a non-empty spreadsheet_path
  messages             \* what execute has yielded to its consumer, in order

locals == <<df, date_columns, date_formats, data_types, null_counts,
            identifier_columns, description_columns, metric_columns, metrics>>
accum == <<sheets_metadata, global_date_formats, metrics_mapping>>
call == <<stream, path_given, messages>>
vars == <<pc, fileState, workbook, sheetIdx, locals, sheet_info, accum,
          document, result, error, previous, call>>

NoLocals ==
  /\ df' = <<>>
  /\ date_columns' = <<>>
  /\ date_formats' = <<>>
  /\ data_types' = <<>>
  /\ null_counts' = <<>>
  /\ identifier_columns' = <<>>
  /\ description_columns' = <<>>
  /\ metric_columns' = <<>>
  /\ metrics' = <<>>

Init ==
  /\ pc = "start"
  /\ \/ fileState \in {"missing", "unreadable"} /\ workbook = <<>>
     \/ fileState = "ok" /\ workbook \in Workbooks
  /\ sheetIdx = 0
  /\ df = <<>>
  /\ date_columns = <<>>
  /\ date_formats = <<>>
  /\ data_types = <<>>
  /\ null_counts = <<>>
  /\ identifier_columns = <<>>
  /\ description_columns = <<>>
  /\ metric_columns = <<>>
  /\ metrics = <<>>
  /\ sheet_info = <<>>
  /\ sheets_metadata = <<>>
  /\ global_date_formats = {}
  /\ metrics_mapping = <<>>
  /\ document = <<>>
  /\ result = <<>>
  /\ error = "none"
  /\ previous = <<>>
  /\ stream = FALSE
  /\ path_given = TRUE
  /\ messages = <<>>

\* the except clause of process_spreadsheet logs and re-raises
Raise(e) ==
  /\ pc' = "raised"
  /\ error' = e
  /\ UNCHANGED <<call, previous, fileState, workbook, sheetIdx, locals, sheet_info, accum,
                 document, result>>

(***************************************************************************)
(* process_spreadsheet, lines 67-79.                                       *)
(***************************************************************************)
PathMissing ==
  /\ pc = "start"
  /\ fileState = "missing"
  /\ Raise("FileNotFoundError")

ReadExcelFails ==
  /\ pc = "start"
  /\ fileState = "unreadable"
  /\ Raise("ValueError")

ReadExcel ==
  /\ pc = "start"
  /\ fileState = "ok"
  /\ sheetIdx' = 1
  /\ sheets_metadata' = <<>>
  /\ global_date_formats' = {}
  /\ metrics_mapping' = <<>>
  /\ pc' = "loop"
  /\ UNCHANGED <<call, previous, fileState, workbook, locals, sheet_info, document, result, error>>

\* the loop left after the first sheet
FirstSheetDone(idx, sheets) == idx > 1

\* whether the loop over the sheets is exhausted
AllSheetsDone(idx, sheets) == idx > Len(sheets)

\* lines 80-87: the next sheet, its labels cleaned and placeholders dropped
CleanColumns ==
  /\ pc = "loop"
  /\ ~AllSheetsDone(sheetIdx, workbook)
  /\ df' = Sanitize(LoadSheet(workbook[sheetIdx]))
  /\ pc' = "detect"
  /\ UNCHANGED <<call, previous, fileState, workbook, sheetIdx, date_columns, date_formats,
                 data_types, null_counts, identifier_columns,
                 description_columns, metric_columns, metrics, sheet_info,
                 accum, document, result, error>>

(***************************************************************************)
(* _extract_sheet_metadata, one action per statement.                      *)
(***************************************************************************)
DetectDateColumns ==
  /\ pc = "detect"
  /\ date_columns' \in RemoveDuplicates(DateList(df, 1))
  /\ date_formats' \in Orderings(DateFormatSet(df))
  /\ pc' = "infer"
  /\ UNCHANGED <<call, previous, fileState, workbook, sheetIdx, df, data_types, null_counts,
                 identifier_columns, description_columns, metric_columns,
                 metrics, sheet_info, accum, document, result, error>>

InferTypes ==
  /\ pc = "infer"
  /\ LET r == InferDataTypes(df, date_columns)
     IN df' = r.df /\ data_types' = r.types
  /\ pc' = "nulls"
  /\ UNCHANGED <<call, previous, fileState, workbook, sheetIdx, date_columns, date_formats,
                 null_counts, identifier_columns, description_columns,
                 metric_columns, metrics, sheet_info, accum, document,
                 result, error>>

CountNulls ==
  /\ pc = "nulls"
  /\ null_counts' = NullCounts(df)
  /\ pc' = "identifier"
  /\ UNCHANGED <<call, previous, fileState, workbook, sheetIdx, df, date_columns, date_formats,
                 data_types, identifier_columns, description_columns,
                 metric_columns, metrics, sheet_info, accum, document,
                 result, error>>

IdentifierColumns ==
  /\ pc = "identifier"
  /\ ~IdentifierRaises(df)
  /\ identifier_columns' = IdentifyIdentifierColumns(df)
  /\ pc' = "description"
  /\ UNCHANGED <<call, previous, fileState, workbook, sheetIdx, df, date_columns, date_formats,
                 data_types, null_counts, description_columns, metric_columns,
                 metrics, sheet_info, accum, document, result, error>>

IdentifierColumnsFails ==
  /\ pc = "identifier"
  /\ IdentifierRaises(df)
  /\ Raise("AttributeError")

DescriptionColumns ==
  /\ pc = "description"
  /\ description_columns' = IdentifyDescriptionColumns(df, identifier_columns)
  /\ pc' = "metric"
  /\ UNCHANGED <<call, previous, fileState, workbook, sheetIdx, df, date_columns, date_formats,
                 data_types, null_counts, identifier_columns, metric_columns,
                 metrics, sheet_info, accum, document, result, error>>

MetricColumns ==
  /\ pc = "metric"
  /\ metric_columns' =
       IdentifyMetricColumns(df, identifier_columns \o description_columns \o date_columns)
  /\ pc' = "extract"
  /\ UNCHANGED <<call, previous, fileState, workbook, sheetIdx, df, date_columns, date_formats,
                 data_types, null_counts, identifier_columns,
                 description_columns, metrics, sheet_info, accum, document,
                 result, error>>

ExtractMetricsStep ==
  /\ pc = "extract"
  /\ metrics' = ExtractMetrics(df, identifier_columns, description_columns)
  /\ pc' = "info"
  /\ UNCHANGED <<call, previous, fileState, workbook, sheetIdx, df, date_columns, date_formats,
                 data_types, null_counts, identifier_columns,
                 description_columns, metric_columns, sheet_info, accum,
                 document, result, error>>

\* the keyword arguments of lines 162-175
SheetInfoArgs ==
  [name |-> SheetNames[sheetIdx],
   columns |-> Labels(df),
   row_count |-> NumRows(df),
   column_count |-> Len(Labels(df)),
   data_types |-> data_types,
   has_headers |-> TRUE,
   date_columns |-> date_columns,
   null_counts |-> null_counts,
   date_formats |-> date_formats,
   identifier_columns |-> identifier_columns,
   description_columns |-> description_columns,
   metric_columns |-> metric_columns]

\* lines 161-177: build the SheetInfo and return it with the mapping
BuildSheetInfo ==
  /\ pc = "info"
  /\ sheet_info' = <<SheetInfo(SheetInfoArgs), metrics>>
  /\ NoLocals
  /\ pc' = "collect"
  /\ UNCHANGED <<call, previous, fileState, workbook, sheetIdx, accum, document, result, error>>

(***************************************************************************)
(* process_spreadsheet, lines 90-127.                                      *)
(***************************************************************************)
\* a variant that stores the mapping of every sheet, empty or not
CollectMetricsAlways(mapping, sheet_name, metrics_in_sheet) ==
  DictPut(mapping, sheet_name, metrics_in_sheet)

\* lines 97-98: if metrics_in_sheet: metrics_mapping[sheet_name] = ...
CollectMetrics(mapping, sheet_name, metrics_in_sheet) ==
  IF DOMAIN metrics_in_sheet # {}
    THEN DictPut(mapping, sheet_name, metrics_in_sheet)
    ELSE mapping

CollectSheet ==
  /\ pc = "collect"
  /\ LET name == SheetNames[sheetIdx] IN
       /\ sheets_metadata' = DictPut(sheets_metadata, name, sheet_info[1])
       /\ global_date_formats' = global_date_formats \cup SeqRange(sheet_info[1].date_formats)
       /\ metrics_mapping' = CollectMetrics(metrics_mapping, name, sheet_info[2])
  /\ sheetIdx' = sheetIdx + 1
  /\ sheet_info' = <<>>
  /\ pc' = "loop"
  /\ UNCHANGED <<call, previous, fileState, workbook, locals, document, result, error>>

ConfigData(formats) ==
  [version |-> "1.0",
   global |-> [date_formats |-> formats],
   sheets |-> [n \in DOMAIN sheets_metadata |-> ModelDump(sheets_metadata[n])],
   metrics_mapping |-> metrics_mapping]

\* lines 100-118
WriteConfig ==
  /\ pc = "loop"
  /\ AllSheetsDone(sheetIdx, workbook)
  /\ \E formats \in Orderings(global_date_formats) :
       document' = ConfigData(formats)
  /\ pc' = "return"
  /\ UNCHANGED <<call, previous, fileState, workbook, sheetIdx, locals, sheet_info, accum,
                 result, error>>

\* open(config_path, 'w') fails
WriteConfigFails ==
  /\ pc = "loop"
  /\ AllSheetsDone(sheetIdx, workbook)
  /\ Raise("OSError")

\* lines 122-127
ReturnResponse ==
  /\ pc = "return"
  /\ result' = SpreadsheetProcessingResponse(
                 [sheets_metadata |-> sheets_metadata,
                  processed_data |-> <<>>,
                  file_path |-> SpreadsheetPath,
                  config_path |-> WithSuffix(SpreadsheetPath, ".yaml")])
  /\ pc' = "done"
  /\ UNCHANGED <<call, previous, fileState, workbook, sheetIdx, locals, sheet_info, accum,
                 document, error>>

Next ==
  \/ PathMissing
  \/ ReadExcelFails
  \/ ReadExcel
  \/ CleanColumns
  \/ DetectDateColumns
  \/ InferTypes
  \/ CountNulls
  \/ IdentifierColumns
  \/ IdentifierColumnsFails
  \/ DescriptionColumns
  \/ MetricColumns
  \/ ExtractMetricsStep
  \/ BuildSheetInfo
  \/ CollectSheet
  \/ WriteConfig
  \/ WriteConfigFails
  \/ ReturnResponse

Spec == Init /\ [][Next]_vars

(***************************************************************************)
(* The same workbook processed a second time, by a new call that may run   *)
(* in another interpreter: every accumulator of process_spreadsheet starts *)
(* afresh (lines 77-79) and the document of the first call is remembered.  *)
(***************************************************************************)
\* workbooks with date columns and formats, one sheet or two
TwiceCols == 2

TwiceBooks ==
  {<<t>> : t \in TablesFrom(PoolF, OrderedPicks(Len(PoolF), TwiceCols))}
    \cup [1..2 -> FewTables]

InitTwice == Init /\ (fileState = "ok" => workbook \in TwiceBooks)

ProcessAgain ==
  /\ pc = "done"
  /\ previous = <<>>
  /\ previous' = document
  /\ pc' = "start"
  /\ sheetIdx' = 0
  /\ sheets_metadata' = <<>>
  /\ global_date_formats' = {}
  /\ metrics_mapping' = <<>>
  /\ document' = <<>>
  /\ result' = <<>>
  /\ UNCHANGED <<call, fileState, workbook, locals, sheet_info, error>>

NextTwice == Next \/ ProcessAgain

SpecTwice == InitTwice /\ [][NextTwice]_vars

(***************************************************************************)
(* execute, lines 37-63: an asynchronous generator around                  *)
(* process_spreadsheet.  Its consumer resumes it until it is exhausted.    *)
(***************************************************************************)
\* execute is entered at pc = "execute"; without a path there is no file
InitExecute ==
  /\ pc = "execute"
  /\ stream \in BOOLEAN
  /\ path_given \in BOOLEAN
  /\ messages = <<>>
  /\ IF path_given
       THEN \/ fileState \in {"missing", "unreadable"} /\ workbook = <<>>
            \/ fileState = "ok" /\ workbook \in TwiceBooks
       ELSE fileState = "missing" /\ workbook = <<>>
  /\ sheetIdx = 0
  /\ df = <<>>
  /\ date_columns = <<>>
  /\ date_formats = <<>>
  /\ data_types = <<>>
  /\ null_counts = <<>>
  /\ identifier_columns = <<>>
  /\ description_columns = <<>>
  /\ metric_columns = <<>>
  /\ metrics = <<>>
  /\ sheet_info = <<>>
  /\ sheets_metadata = <<>>
  /\ global_date_formats = {}
  /\ metrics_mapping = <<>>
  /\ document = <<>>
  /\ result = <<>>
  /\ error = "none"
  /\ previous = <<>>

\* str(e) of the exceptions whose text the code fixes; the text of an
\* exception of a library is that library's
ErrorText(e) ==
  CASE e = "ValueError" -> "Spreadsheet path not provided"
    [] e = "FileNotFoundError" -> "Spreadsheet not found at book.xlsx"
    [] OTHER -> e

\* a variant that announces the loading whatever the stream argument is
ProcessingMessagesAlways(streaming) ==
  << [status |-> "PROCESSING", message |-> "Loading spreadsheet..."] >>

\* lines 44-48: the message yielded before the spreadsheet is processed
ProcessingMessages(streaming) ==
  IF streaming
    THEN << [status |-> "PROCESSING", message |-> "Loading spreadsheet..."] >>
    ELSE <<>>

\* lines 40-42: raise ValueError, caught by line 58
ExecuteNoPath ==
  /\ pc = "execute"
  /\ ~path_given
  /\ pc' = "raised"
  /\ error' = "ValueError"
  /\ UNCHANGED <<call, previous, fileState, workbook, sheetIdx, locals,
                 sheet_info, accum, document, result>>

\* lines 40-51: the path is there, PROCESSING is yielded when streaming,
\* and process_spreadsheet is entered
ExecuteCall ==
  /\ pc = "execute"
  /\ path_given
  /\ messages' = messages \o ProcessingMessages(stream)
  /\ pc' = "start"
  /\ UNCHANGED <<stream, path_given, previous, fileState, workbook, sheetIdx,
                 locals, sheet_info, accum, document, result, error>>

\* lines 53-56: result.model_dump() is yielded as COMPLETED
YieldCompleted ==
  /\ pc = "done"
  /\ messages' = Append(messages,
       [status |-> "COMPLETED",
        message |-> [f \in DOMAIN result |->
                      IF f = "sheets_metadata"
                        THEN [n \in DOMAIN result[f] |-> ModelDump(result[f][n])]
                        ELSE result[f]]])
  /\ pc' = "yielded"
  /\ UNCHANGED <<stream, path_given, previous, fileState, workbook, sheetIdx,
                 locals, sheet_info, accum, document, result, error>>

\* lines 58-63: any Exception of the try block is logged and yielded as ERROR
YieldError ==
  /\ pc = "raised"
  /\ messages' = Append(messages, [status |-> "ERROR", message |-> ErrorText(error)])
  /\ pc' = "yielded"
  /\ UNCHANGED <<stream, path_given, previous, fileState, workbook, sheetIdx,
                 locals, sheet_info, accum, document, result, error>>

\* resumed after its last yield, the generator falls off its end
ExecuteReturn ==
  /\ pc = "yielded"
  /\ pc' = "closed"
  /\ UNCHANGED <<call, previous, fileState, workbook, sheetIdx, locals,
                 sheet_info, accum, document, result, error>>

NextExecute ==
  \/ Next
  \/ ExecuteNoPath
  \/ ExecuteCall
  \/ YieldCompleted
  \/ YieldError
  \/ ExecuteReturn

SpecExecute == InitExecute /\ [][NextExecute]_vars

(***************************************************************************)
(* Verification.  The properties are stated at pc = "info", where every    *)
(* stage has run and its results are handed to SheetInfo.                  *)
(***************************************************************************)
\* the current sheet as sanitized, before any stage changed a cell
RawDf == Sanitize(LoadSheet(workbook[sheetIdx]))

Present(col) == {r \in 1..Len(col.cells) : col.cells[r].k # "null"}

\* the rows of a candidate pair that pass the text tests, and the mapping
\* they give (the last row of a key gives its value)
PairRows(pair) ==
  LET a == AsTypeStr(df[ColIndex(df, pair[1])])
      b == AsTypeStr(df[ColIndex(df, pair[2])])
  IN {r \in 1..Len(a) : KeepsRow(StrStrip(a[r]), StrStrip(b[r]))}

PairDict(pair) ==
  LET a == AsTypeStr(df[ColIndex(df, pair[1])])
      b == AsTypeStr(df[ColIndex(df, pair[2])])
      rows == PairRows(pair)
      last(key) == CHOOSE r \in rows :
                     StrStrip(a[r]) = key /\ \A q \in rows : StrStrip(a[q]) = key => q <= r
  IN [key \in {StrStrip(a[r]) : r \in rows} |-> StrStrip(b[last(key)])]

\* the candidates in the stated order: the positional pair, then pair number
\* p of the identifier x description product, identifier index major
StatedCandidates ==
  LET n == Len(identifier_columns)
      m == Len(description_columns)
  IN (IF Len(df) >= 2 THEN << <<df[1].label, df[2].label>> >> ELSE <<>>)
       \o [p \in 1..(n * m) |->
             <<identifier_columns[((p - 1) \div m) + 1],
               description_columns[((p - 1) % m) + 1]>>]

Yielding == {i \in 1..Len(StatedCandidates) : DOMAIN PairDict(StatedCandidates[i]) # {}}

FirstYielding == CHOOSE i \in Yielding : \A j \in Yielding : i <= j

\* C1: the metric dictionary is the mapping of the first candidate, in the
\* order (first column, second column), then identifier x description with
\* identifiers outer, that yields a non-empty mapping; it is empty only when
\* every candidate yields an empty mapping.
C1_FirstCandidateWins ==
  pc = "info" =>
    IF Yielding = {} THEN DOMAIN metrics = {}
    ELSE metrics = PairDict(StatedCandidates[FirstYielding])

\* a sheet with two identifier and two description columns whose first two
\* candidates yield nothing, so that a later product pair is the one used
C1_Witness ==
  /\ pc = "info"
  /\ Len(identifier_columns) >= 2
  /\ Len(description_columns) >= 2
  /\ Yielding # {}
  /\ FirstYielding >= 3
  /\ DOMAIN metrics # {}

\* C2: every entry of the metric dictionary comes from a row of a candidate
\* pair in which both cells are present (not null, a cell nulled by the date
\* coercion included), both trimmed texts are non-empty and neither is
\* "nan"; the sheet Code,Label with rows (R001,Revenue),(R002,Cost) yields
\* exactly {R001: Revenue, R002: Cost}.
C2_EntriesFromPresentCells ==
  pc = "info" =>
    /\ \A key \in DOMAIN metrics :
         \E i \in 1..Len(StatedCandidates) :
           LET ic == df[ColIndex(df, StatedCandidates[i][1])]
               dc == df[ColIndex(df, StatedCandidates[i][2])]
           IN \E r \in Present(ic) \cap Present(dc) :
                /\ StrStrip(AsTypeStr(ic)[r]) = key
                /\ StrStrip(AsTypeStr(dc)[r]) = metrics[key]
                /\ KeepsRow(key, metrics[key])
    /\ workbook[sheetIdx] = <<PoolA[1], PoolA[2]>> =>
         metrics = [key \in {tR001, tR002} |-> IF key = tR001 THEN tRevenue ELSE tCost]

\* the ratios of a column of the table as it stands, as integer comparisons
RowTotal == NumRows(df)
PresentCount(col) == Cardinality(Present(col))
DistinctCount(col) == Cardinality({col.cells[r] : r \in Present(col)})
NonNullRatioAbove04(col) == RowTotal > 0 /\ 10 * PresentCount(col) > 4 * RowTotal
UniquenessBelow09(col) == RowTotal = 0 \/ 10 * DistinctCount(col) < 9 * RowTotal

\* C3: a column is in the identifier list exactly when its non-null ratio
\* is strictly above 0.4 and its uniqueness ratio (0 for a table without
\* rows) is strictly below 0.9, whatever its type.
C3_IdentifierExactly ==
  pc = "info" =>
    \A i \in 1..Len(df) :
      (df[i].label \in SeqRange(identifier_columns))
        <=> (NonNullRatioAbove04(df[i]) /\ UniquenessBelow09(df[i]))

\* a fully populated column at exactly 0.9 uniqueness is not an identifier
C3_Witness ==
  /\ pc = "info"
  /\ \E i \in 1..Len(df) :
       /\ RowTotal > 0
       /\ 10 * DistinctCount(df[i]) = 9 * RowTotal
       /\ NonNullRatioAbove04(df[i])
       /\ df[i].label \notin SeqRange(identifier_columns)

\* C4: the identifier, description and metric lists are pairwise disjoint;
\* a description column is a non-identifier with non-null ratio above 0.4;
\* a metric column is numeric and neither identifier, description nor date.
C4_RolesDisjoint ==
  pc = "info" =>
    LET ids == SeqRange(identifier_columns)
        descs == SeqRange(description_columns)
        mets == SeqRange(metric_columns)
    IN /\ ids \cap descs = {}
       /\ ids \cap mets = {}
       /\ descs \cap mets = {}
       /\ \A i \in 1..Len(df) :
            /\ df[i].label \in descs => (df[i].label \notin ids /\ NonNullRatioAbove04(df[i]))
            /\ df[i].label \in mets =>
                 /\ df[i].dtype \in {"int64", "float64", "bool"}
                 /\ df[i].label \notin SeqRange(date_columns)

\* a sheet with a column in each role, one of them also a date column
C4_Witness ==
  /\ pc = "info"
  /\ identifier_columns # <<>>
  /\ description_columns # <<>>
  /\ metric_columns # <<>>
  /\ SeqRange(date_columns) \cap
       (SeqRange(identifier_columns) \cup SeqRange(description_columns)) # {}

MinOf(S) == CHOOSE x \in S : \A y \in S : x <= y

\* the three detection paths, on the sanitized sheet as loaded
LabelMatches(col) ==
  {j \in 1..Len(known_formats) : ParsesText(col.label, known_formats[j])}

SampleRows(col) ==
  {r \in Present(col) : Cardinality({q \in Present(col) : q < r}) < 10}

ValueMatches(col) ==
  {j \in 1..Len(known_formats) :
     \A r \in SampleRows(col) :
       ParsesText(CellStr(col.cells[r], col.dtype, DateOnly(col.cells)), known_formats[j])}

PathA(col) == LabelMatches(col) # {}
PathB(col) == StrLower(col.label) \in DateNames
PathC(col) == ~PathB(col) /\ ValueMatches(col) # {}

\* C5: a column is in the date list exactly when its label parses under a
\* known format (a), or its label is date, year or month (b), or it is not
\* so named and one format parses all of its first ten present values (c);
\* the formats recorded are the first matching one of (a) and of (c), none
\* for (b); a column labelled Jan-24 is matched by (a) with %b-%y.
C5_DateColumnsExactly ==
  pc = "info" =>
    LET raw == RawDf IN
    /\ SeqRange(date_columns) =
         {raw[i].label : i \in {j \in 1..Len(raw) :
                                  PathA(raw[j]) \/ PathB(raw[j]) \/ PathC(raw[j])}}
    /\ SeqRange(date_formats) =
         {known_formats[MinOf(LabelMatches(raw[i]))].name :
            i \in {j \in 1..Len(raw) : PathA(raw[j])}}
         \cup {known_formats[MinOf(ValueMatches(raw[i]))].name :
                 i \in {j \in 1..Len(raw) : PathC(raw[j])}}
    /\ \A i \in 1..Len(raw) :
         raw[i].label = tJan24 =>
           /\ tJan24 \in SeqRange(date_columns)
           /\ known_formats[MinOf(LabelMatches(raw[i]))].name = "%b-%y"
           /\ "%b-%y" \in SeqRange(date_formats)

\* a column matched through its label and through its values, under two
\* different formats, both recorded
C5_Witness ==
  /\ pc = "info"
  /\ \E i \in 1..Len(RawDf) :
       /\ PathA(RawDf[i])
       /\ PathC(RawDf[i])
       /\ MinOf(LabelMatches(RawDf[i])) # MinOf(ValueMatches(RawDf[i]))
       /\ known_formats[MinOf(LabelMatches(RawDf[i]))].name \in SeqRange(date_formats)
       /\ known_formats[MinOf(ValueMatches(RawDf[i]))].name \in SeqRange(date_formats)

NoRepeats(lst) == \A i, j \in 1..Len(lst) : lst[i] = lst[j] => i = j

\* C6: the date-column list holds each column at most once, also when the
\* column was flagged through more than one detection path.
C6_DateColumnsOnce ==
  /\ NoRepeats(date_columns)
  /\ \A n \in DOMAIN sheets_metadata : NoRepeats(sheets_metadata[n].date_columns)

\* a column flagged through two paths is listed exactly once
C6_Witness ==
  /\ pc = "info"
  /\ \E i \in 1..Len(RawDf) :
       /\ PathA(RawDf[i])
       /\ PathC(RawDf[i])
       /\ Cardinality({p \in 1..Len(date_columns) : date_columns[p] = RawDf[i].label}) = 1

\* the positions at which the data types are set and the table is that of
\* the current sheet
TypesSet ==
  \/ pc \in {"nulls", "identifier", "description", "metric", "extract", "info"}
  \/ pc = "raised" /\ error = "AttributeError"

StatedType(dtype) ==
  IF dtype = "datetime64" THEN "datetime"
  ELSE IF dtype = "int64" THEN "integer"
  ELSE IF dtype = "float64" THEN "float"
  ELSE IF dtype = "bool" THEN "boolean"
  ELSE "string"

\* C7: every sanitized column gets exactly one type of integer, float,
\* boolean, datetime, string; a date-flagged column is datetime, its cells
\* coerced one by one (what cannot be read as a date becomes null), or string
\* when the coercion of the column raises; any other column is typed by the
\* precedence datetime, integer, float, boolean, else string; the keys of
\* the type map are exactly the sanitized columns.
C7_TypesAssigned ==
  TypesSet =>
    LET raw == RawDf IN
    /\ DOMAIN data_types = SeqRange(Labels(raw))
    /\ Labels(df) = Labels(raw)
    /\ \A i \in 1..Len(raw) :
         LET label == raw[i].label
             frame == Cardinality({j \in 1..Len(raw) : raw[j].label = label}) > 1
         IN /\ data_types[label] \in {"integer", "float", "boolean", "datetime", "string"}
            /\ IF label \in SeqRange(date_columns)
                 THEN IF frame
                        THEN data_types[label] = "string" /\ df[i] = raw[i]
                        ELSE /\ data_types[label] = "datetime"
                             /\ df[i].dtype = "datetime64"
                             /\ \A r \in 1..Len(raw[i].cells) :
                                  /\ df[i].cells[r].k \in {"ts", "null"}
                                  /\ raw[i].cells[r].k \in {"null", "bool"} => df[i].cells[r].k = "null"
                                  /\ raw[i].cells[r] = TextCell(tDay15) =>
                                       df[i].cells[r] = StampCell(2024, 1, 15, 0)
                                  /\ raw[i].cells[r] \in {TextCell(tTBD), TextCell(tR001)} =>
                                       df[i].cells[r].k = "null"
                 ELSE /\ df[i] = raw[i]
                      /\ data_types[label] =
                           IF frame THEN "string" ELSE StatedType(raw[i].dtype)

\* a date-flagged column typed datetime in which a present cell became null
C7_Witness ==
  /\ pc = "info"
  /\ \E i \in 1..Len(df) :
       /\ df[i].label \in SeqRange(date_columns)
       /\ data_types[df[i].label] = "datetime"
       /\ \E r \in 1..Len(df[i].cells) :
            RawDf[i].cells[r].k = "text" /\ df[i].cells[r].k = "null"

\* the positions at which df is the sanitized table of the current sheet
TableSet ==
  \/ pc \in {"detect", "infer", "nulls", "identifier", "description",
             "metric", "extract", "info"}
  \/ pc = "raised" /\ error = "AttributeError"

MatchesPlaceholder(label) ==
  Len(label) >= Len(sUnnamed) /\ \A c \in 1..Len(sUnnamed) : label[c] = sUnnamed[c]

HeaderText(raw, j) == StrStrip(CellStr(raw[j].label, "object", TRUE))

Survivors(raw) == SortedSeq({j \in 1..Len(raw) : ~MatchesPlaceholder(HeaderText(raw, j))})

\* C8: after sanitization no surviving label matches the placeholder
\* pattern, labels with surrounding whitespace included; the surviving
\* columns are the other columns of the sheet in their order, with trimmed
\* labels; a sheet left without columns raises no error in any stage.
C8_NoPlaceholderSurvives ==
  TableSet =>
    LET raw == workbook[sheetIdx]
        kept == Survivors(raw)
    IN /\ \A i \in 1..Len(df) : ~MatchesPlaceholder(df[i].label)
       /\ Labels(df) = [i \in 1..Len(kept) |-> HeaderText(raw, kept[i])]
       /\ pc = "detect" => \A i \in 1..Len(df) : df[i].cells = raw[kept[i]].cells
       /\ pc = "raised" => df # <<>>

\* a sheet whose columns were all placeholders, one of them with a leading
\* blank in its label, has been profiled with an empty column list
C8_Witness ==
  /\ pc = "collect"
  /\ sheet_info[1].columns = <<>>
  /\ \E j \in 1..Len(workbook[sheetIdx]) :
       /\ workbook[sheetIdx][j].label.k = "text"
       /\ IsSpace(workbook[sheetIdx][j].label.v[1])
       /\ MatchesPlaceholder(HeaderText(workbook[sheetIdx], j))

AllSheetNames == {SheetNames[i] : i \in 1..Len(workbook)}

\* what holds of the outcome of a call in every state
C9_Outcome ==
  /\ error # "none" => pc = "raised"
  /\ pc = "raised" => (error # "none" /\ document = <<>> /\ result = <<>>)
  /\ fileState # "ok" => (document = <<>> /\ result = <<>>)
  /\ document # <<>> =>
       /\ sheetIdx = Len(workbook) + 1
       /\ DOMAIN document.sheets = AllSheetNames
  /\ result # <<>> =>
       /\ document # <<>>
       /\ DOMAIN result.sheets_metadata = AllSheetNames

\* no step goes back to an earlier sheet, and nothing follows a raise
C9_NoRetryStep ==
  /\ sheetIdx' >= sheetIdx
  /\ pc = "raised" => pc' = "raised"
  /\ document # <<>> => document' = document

\* C9: the profile document is written only after every sheet has been
\* processed without error; when the file is missing or unreadable or a
\* stage of a sheet raises, the call raises, writes no document and returns
\* no result, and no sheet is processed again; a returned result implies the
\* document was written with all the sheets.
C9_WriteOnlyAfterAllSheets == [](C9_Outcome) /\ [][C9_NoRetryStep]_vars

\* the second sheet raised after the first was collected: nothing written
C9_Witness ==
  /\ pc = "raised"
  /\ error = "AttributeError"
  /\ sheetIdx = 2
  /\ DOMAIN sheets_metadata = {"S1"}
  /\ document = <<>>
  /\ result = <<>>

ProfileFields ==
  {"columns", "data_types", "null_counts", "date_columns", "date_formats",
   "identifier_columns", "description_columns", "metric_columns",
   "row_count", "column_count", "has_headers"}

\* C10: every sheet entry of the written document, and every SheetInfo of
\* the returned result, carries the column list, the type and null-count
\* maps, the date columns and formats, the identifier, description and
\* metric lists, the row and column counts and has_headers = TRUE.
C10_ProfileHasAllFields ==
  /\ document # <<>> =>
       \A n \in DOMAIN document.sheets :
         /\ ProfileFields \subseteq DOMAIN document.sheets[n]
         /\ document.sheets[n].has_headers = TRUE
  /\ result # <<>> =>
       \A n \in DOMAIN result.sheets_metadata :
         /\ ProfileFields \subseteq DOMAIN result.sheets_metadata[n]
         /\ result.sheets_metadata[n].has_headers = TRUE

\* C11: the result of a successful call exposes the map from sheet name to
\* SheetInfo, an empty processed-data payload, the original file path and
\* the path of the profile document, which is the source path with its
\* extension replaced by .yaml.
C11_ResultExposesPaths ==
  result # <<>> =>
    /\ {"sheets_metadata", "processed_data", "file_path", "config_path"}
         \subseteq DOMAIN result
    /\ result.sheets_metadata = sheets_metadata
    /\ result.processed_data = <<>>
    /\ result.file_path = SpreadsheetPath
    /\ result.config_path = [stem |-> SpreadsheetPath.stem, suffix |-> ".yaml"]

\* C12 as stated: the metric map and the sheet map have the same keys
\* whenever no sheet is half collected, in the accumulators and in the
\* written document, so a sheet whose pairs yield nothing has an empty entry.
C12_SameKeySets ==
  /\ pc \in {"loop", "return", "done"} =>
       DOMAIN metrics_mapping = DOMAIN sheets_metadata
  /\ document # <<>> =>
       DOMAIN document.metrics_mapping = DOMAIN document.sheets

\* the entry of the sheet being collected is added exactly when its mapping
\* has an entry; no other key changes
C12_CollectStep ==
  pc = "collect" =>
    /\ DOMAIN sheets_metadata' = DOMAIN sheets_metadata \cup {SheetNames[sheetIdx]}
    /\ DOMAIN metrics_mapping' =
         DOMAIN metrics_mapping \cup
           {n \in {SheetNames[sheetIdx]} : DOMAIN sheet_info[2] # {}}
    /\ \A n \in DOMAIN metrics_mapping' :
         metrics_mapping'[n] =
           IF n = SheetNames[sheetIdx] THEN sheet_info[2] ELSE metrics_mapping[n]

C12_NoEmptyEntry ==
  /\ DOMAIN metrics_mapping \subseteq DOMAIN sheets_metadata
  /\ \A n \in DOMAIN metrics_mapping : DOMAIN metrics_mapping[n] # {}
  /\ document # <<>> =>
       /\ document.metrics_mapping = metrics_mapping
       /\ DOMAIN document.sheets = DOMAIN sheets_metadata

\* C12 (amended): every processed sheet has one entry in the sheet map, and
\* the key set of the metric map is the subset of those sheets whose mapping
\* has at least one entry: a sheet for which no candidate pair yields
\* anything is absent from the metric map, and no entry of it is empty.
C12_MetricKeysAreYieldingSheets == [](C12_NoEmptyEntry) /\ [][C12_CollectStep]_vars

\* a two-sheet workbook written with the first sheet's mapping only
C12_Witness ==
  /\ pc = "done"
  /\ DOMAIN document.sheets = {"S1", "S2"}
  /\ DOMAIN document.metrics_mapping = {"S1"}

\* a numeric column, not date-tagged, with exactly half of its cells null
HalfNullNumeric(col) ==
  /\ RowTotal > 0
  /\ col.dtype \in {"int64", "float64"}
  /\ col.label \notin SeqRange(date_columns)
  /\ 2 * PresentCount(col) = RowTotal

AllNull(col) == PresentCount(col) = 0

\* C14: in a table with at least one row an all-null column is in neither
\* the identifier nor the description list, and its inferred type is the
\* default string unless its storage dtype signals another type, which then
\* is the inferred one.
C14_AllNullTypedByDtype ==
  pc = "info" =>
    LET raw == RawDf IN
    \A i \in 1..Len(raw) :
      (NumRows(raw) > 0 /\ AllNull(raw[i]))
      => /\ raw[i].label \notin SeqRange(identifier_columns)
         /\ raw[i].label \notin SeqRange(description_columns)
         /\ data_types[raw[i].label] \in {"string", StatedType(raw[i].dtype)}

\* C16: processing the same workbook twice yields the same profile
\* document, the order of the entries of every sheet's date-column list and
\* date-format list and of the global date-format list included.
C16_SameProfileTwice ==
  (previous # <<>> /\ document # <<>>) => document = previous

\* C17: the null count of every column is the number of missing cells of
\* the sanitized table as loaded, so a cell that is present in the source
\* is never counted as null, in a date-flagged column either.
C17_NullCountsOfLoadedTable ==
  pc = "info" =>
    LET raw == RawDf IN
    /\ DOMAIN null_counts = SeqRange(Labels(raw))
    /\ \A i \in 1..Len(raw) :
         null_counts[raw[i].label] = NumRows(raw) - PresentCount(raw[i])

\* C18: in a table with at least one row no column has more distinct
\* values than present cells, so its uniqueness ratio never exceeds its
\* non-null ratio; every column with a non-null ratio above 0.4 is then an
\* identifier or a description column, and every metric column has a
\* non-null ratio of at most 0.4.
C18_MetricsAreSparse ==
  pc = "info" =>
    LET ids == SeqRange(identifier_columns)
        descs == SeqRange(description_columns)
        mets == SeqRange(metric_columns)
    IN \A i \in 1..Len(df) :
         /\ RowTotal > 0 =>
              /\ UniqueCount(df[i]) <= NonNullCount(df[i])
              /\ NonNullRatioAbove04(df[i]) => df[i].label \in ids \cup descs
         /\ df[i].label \in mets =>
              /\ RowTotal > 0
              /\ 10 * PresentCount(df[i]) <= 4 * RowTotal

\* a metric column with a present cell beside a well-filled numeric column
\* that is an identifier
C18_Witness ==
  /\ pc = "info"
  /\ \E i, j \in 1..Len(df) :
       /\ df[i].label \in SeqRange(metric_columns)
       /\ PresentCount(df[i]) > 0
       /\ df[j].dtype \in {"int64", "float64"}
       /\ NonNullRatioAbove04(df[j])
       /\ df[j].label \in SeqRange(identifier_columns)

\* the sanitized columns of sheet k that have no present cell and are not
\* named date, year or month
EmptyColumns(k) ==
  LET raw == Sanitize(LoadSheet(workbook[k])) IN
  {raw[i].label : i \in {j \in 1..Len(raw) :
                           AllNull(raw[j]) /\ ~IsDateName(raw[j].label)}}

C19_AtInfo ==
  pc = "info" =>
    \A label \in EmptyColumns(sheetIdx) :
      /\ label \in SeqRange(date_columns)
      /\ "%d/%m/%Y" \in SeqRange(date_formats)
      /\ data_types[label] = "datetime"
      /\ label \notin SeqRange(metric_columns)

C19_Collected ==
  \A k \in 1..Len(workbook) :
    (SheetNames[k] \in DOMAIN sheets_metadata /\ EmptyColumns(k) # {})
    => /\ EmptyColumns(k) \subseteq SeqRange(sheets_metadata[SheetNames[k]].date_columns)
       /\ "%d/%m/%Y" \in SeqRange(sheets_metadata[SheetNames[k]].date_formats)
       /\ \A label \in EmptyColumns(k) :
            sheets_metadata[SheetNames[k]].data_types[label] = "datetime"
       /\ "%d/%m/%Y" \in global_date_formats
       /\ document # <<>> =>
            "%d/%m/%Y" \in SeqRange(document.global.date_formats)

\* C19: a column without a non-null cell (all-null, or any column of a
\* table without rows) whose label is not date, year or month is always
\* date-flagged: its empty sample parses under the first known format
\* %d/%m/%Y, which is recorded in the sheet's and the global date formats;
\* the column is typed datetime and is not in the metric list, whatever
\* its storage type.
C19_EmptyColumnIsDate == C19_AtInfo /\ C19_Collected

\* an all-null column of a table with rows, stored as float64, whose label
\* is no date and which is flagged by its empty sample alone
C19_Witness ==
  /\ pc = "info"
  /\ \E i \in 1..Len(df) :
       /\ RawDf[i].label \in EmptyColumns(sheetIdx)
       /\ RowTotal > 0
       /\ RawDf[i].dtype = "float64"
       /\ LabelFormat(RawDf[i].label) = 0
       /\ df[i].dtype = "datetime64"
       /\ df[i].label \in SeqRange(date_columns)

\* the trimmed identifier and description texts of row r of the pair used
UsedPair == StatedCandidates[FirstYielding]
UsedKey(r) == StrStrip(AsTypeStr(df[ColIndex(df, UsedPair[1])])[r])
UsedValue(r) == StrStrip(AsTypeStr(df[ColIndex(df, UsedPair[2])])[r])

\* C20: when the same trimmed identifier text occurs in several qualifying
\* rows of the pair used, the dictionary holds exactly one entry for it,
\* whose value is the trimmed description of the last of these rows; the
\* number of entries is the number of distinct trimmed identifiers among
\* the qualifying rows.
C20_LastRowWins ==
  (pc = "info" /\ Yielding # {}) =>
    LET rows == PairRows(UsedPair) IN
    /\ \A r \in rows :
         /\ UsedKey(r) \in DOMAIN metrics
         /\ (\A q \in rows : UsedKey(q) = UsedKey(r) => q <= r)
              => metrics[UsedKey(r)] = UsedValue(r)
    /\ Cardinality(DOMAIN metrics) = Cardinality({UsedKey(r) : r \in rows})
    /\ Cardinality(DOMAIN metrics) <= Cardinality(rows)

\* two qualifying rows with the same trimmed identifier and different
\* descriptions: one entry, with the later description
C20_Witness ==
  /\ pc = "info"
  /\ Yielding # {}
  /\ \E q, r \in PairRows(UsedPair) :
       /\ q < r
       /\ UsedKey(q) = UsedKey(r)
       /\ UsedValue(q) # UsedValue(r)
       /\ metrics[UsedKey(r)] = UsedValue(r)
       /\ Cardinality(DOMAIN metrics) < Cardinality(PairRows(UsedPair))

\* the positions of the terminal and of the PROCESSING messages yielded
Terminals == {i \in 1..Len(messages) : messages[i].status \in {"COMPLETED", "ERROR"}}
Processings == {i \in 1..Len(messages) : messages[i].status = "PROCESSING"}

C21_Messages ==
  /\ \A i \in 1..Len(messages) :
       messages[i].status \in {"PROCESSING", "COMPLETED", "ERROR"}
  \* whatever was raised is caught and can be yielded as ERROR
  /\ pc = "raised" => ENABLED YieldError
  /\ pc \notin {"yielded", "closed"} => Terminals = {}
  /\ pc \in {"yielded", "closed"} =>
       /\ Terminals = {Len(messages)}
       /\ Processings = (IF stream /\ path_given THEN {1} ELSE {})
       /\ Len(messages) = (IF stream /\ path_given THEN 2 ELSE 1)
       /\ LET last == messages[Len(messages)] IN
          IF error = "none"
            THEN /\ last.status = "COMPLETED"
                 /\ result # <<>>
                 /\ DOMAIN last.message = DOMAIN result
                 /\ last.message.sheets_metadata = sheets_metadata
                 /\ last.message.file_path = SpreadsheetPath
            ELSE /\ last.status = "ERROR"
                 /\ result = <<>>
                 /\ last.message = ErrorText(error)
       /\ ~path_given =>
            messages = << [status |-> "ERROR",
                           message |-> "Spreadsheet path not provided"] >>

\* messages are only appended, and none follows a terminal message
C21_Step ==
  /\ Len(messages') >= Len(messages)
  /\ SubSeq(messages', 1, Len(messages)) = messages
  /\ Terminals # {} => messages' = messages

\* C21: execute never lets an ordinary exception reach its consumer and
\* yields exactly one terminal message, COMPLETED with the dumped result or
\* ERROR with the error text, never both and nothing after it; with
\* stream = TRUE and a path present exactly one PROCESSING message comes
\* before it, and without a path ERROR is the only message, streaming or
\* not.
C21_OneTerminalMessage == [](C21_Messages) /\ [][C21_Step]_vars

\* a streamed call whose second sheet raised: PROCESSING, then ERROR
C21_Witness ==
  /\ pc = "closed"
  /\ stream
  /\ error = "AttributeError"
  /\ sheetIdx = 2
  /\ Len(messages) = 2
  /\ messages[1].status = "PROCESSING"
  /\ messages[2] = [status |-> "ERROR", message |-> "AttributeError"]

====
